---- MODULE Spec2Model ----
(***************************************************************************)
(* Model of cloudformation_resources.go (package sparta): the output       *)
(* attribute resolver, the discovery document renderer, the resource       *)
(* factory wrapper, the two mutation helpers and the template merger.      *)
(*                                                                         *)
(* Go strings that the code assembles (Sprintf, Join, template execution)  *)
(* are modelled as sequences of text tokens, so that the order and the     *)
(* arguments of every substitution stay observable.                        *)
(***************************************************************************)
EXTENDS Integers, Sequences, FiniteSets, TLC

VARIABLES
    op,             \* name of the operation that ran last ("none" initially)
    ret,            \* arguments and results of the operation that ran last
    logged,         \* lines the last operation sent to the logger
    exited,         \* TRUE once the process has called os.Exit
    destTemplate,   \* the template merges accumulate into
    cfTemplate,     \* Resources of the template handed to the renderer
    discoveryDataForResourceDependency, \* the package-level pattern variable
    resource,       \* the gocf.Resource the mutation helpers act on
    resource0,      \* history: resource at construction
    added           \* history: names passed to safeAppendDependency, in call order

vars == <<op, ret, logged, exited, destTemplate, cfTemplate,
          discoveryDataForResourceDependency, resource, resource0, added>>

\* Go's nil error; a non-nil error is its message.
NIL == "nil"

\* A Go slice or map value: nil, or non-nil with its contents.
NilSlice    == [nil |-> TRUE, data |-> <<>>]
Slice(data) == [nil |-> FALSE, data |-> data]

\* Longest DependsOn list explored.
MaxDeps == 3

(***************************************************************************)
(* Template merger                                                         *)
(***************************************************************************)

\* Logical names used per collection. "A" is shared by all three collections
\* so that a name held in one collection meets the same name in another.
ResourceKeys == {"A", "B"}
MappingKeys  == {"A"}
OutputKeys   == {"A"}

ResourceValues == {"resQueue", "resBucket"}
MappingValues  == {"map1", "map2"}
OutputValues   == {"out1", "out2"}

\* Go maps: functions from a finite set of keys.
Maps(keys, values) == UNION {[d -> values] : d \in SUBSET keys}

EmptyMap == [k \in {} |-> NIL]

NilMap    == [nil |-> TRUE, data |-> EmptyMap]
GoMap(m)  == [nil |-> FALSE, data |-> m]

Templates ==
    [Resources : Maps(ResourceKeys, ResourceValues),
     Mappings  : Maps(MappingKeys, MappingValues),
     Outputs   : Maps(OutputKeys, OutputValues)]

\* The orders in which a range loop may visit the keys of a map.
Orders(S) ==
    {o \in [1..Cardinality(S) -> S] : \A k \in S : \E i \in DOMAIN o : o[i] = k}

\* The three message formats of safeMergeTemplates.
FmtResource == "Duplicate CloudFormation resource name: %s"
FmtMapping  == "Duplicate CloudFormation Mapping name: %s"
FmtOutput   == "Duplicate CloudFormation output key name: %s"

\* fmt.Sprintf(format, key) with a single %s verb.
ErrorMsg(format, key) == [fmt |-> format, arg |-> key]

\* dest[key] = value on a Go map.
MapAssign(dest, key, value) ==
    [k \in DOMAIN dest \cup {key} |-> IF k = key THEN value ELSE dest[k]]

\* One iteration that assigns whether or not the key exists.
MergeEntryOverwrite(st, key, value, format) ==
    IF key \in DOMAIN st.dest
    THEN [dest |-> MapAssign(st.dest, key, value),
          mergeErrors |-> Append(st.mergeErrors, ErrorMsg(format, key))]
    ELSE [dest |-> MapAssign(st.dest, key, value), mergeErrors |-> st.mergeErrors]

\* One iteration that records only the first collision of the call.
MergeEntryFirstOnly(st, key, value, format) ==
    IF key \in DOMAIN st.dest
    THEN [dest |-> st.dest,
          mergeErrors |-> IF st.mergeErrors = <<>>
                          THEN <<ErrorMsg(format, key)>> ELSE st.mergeErrors]
    ELSE [dest |-> MapAssign(st.dest, key, value), mergeErrors |-> st.mergeErrors]

\* One iteration that drops a colliding key without recording it.
MergeEntrySilent(st, key, value, format) ==
    IF key \in DOMAIN st.dest
    THEN st
    ELSE [dest |-> MapAssign(st.dest, key, value), mergeErrors |-> st.mergeErrors]

\* One iteration that inserts only into an empty destination map.
MergeEntryOnlyIntoEmpty(st, key, value, format) ==
    IF key \in DOMAIN st.dest
    THEN [dest |-> st.dest,
          mergeErrors |-> Append(st.mergeErrors, ErrorMsg(format, key))]
    ELSE IF DOMAIN st.dest = {}
         THEN [dest |-> MapAssign(st.dest, key, value), mergeErrors |-> st.mergeErrors]
         ELSE st

\* One iteration of a range loop of safeMergeTemplates: the body of the
\* `for eachKey, eachValue := range source` loops.
MergeEntry(st, key, value, format) ==
    IF key \in DOMAIN st.dest
    THEN [dest |-> st.dest,
          mergeErrors |-> Append(st.mergeErrors, ErrorMsg(format, key))]
    ELSE [dest |-> MapAssign(st.dest, key, value), mergeErrors |-> st.mergeErrors]

\* A whole range loop over `source`, visiting its keys in `order`.
RECURSIVE MergeLoop(_, _, _, _, _)
MergeLoop(source, order, i, st, format) ==
    IF i > Len(order)
    THEN st
    ELSE MergeLoop(source, order, i + 1,
                   MergeEntry(st, order[i], source[order[i]], format), format)

\* safeMergeTemplates: the three loops in sequence over one mergeErrors
\* slice, then the log lines and the returned error.
SafeMergeTemplates(sourceTemplate, dest, ro, mo, oo) ==
    LET r == MergeLoop(sourceTemplate.Resources, ro, 1,
                       [dest |-> dest.Resources, mergeErrors |-> <<>>], FmtResource)
        m == MergeLoop(sourceTemplate.Mappings, mo, 1,
                       [dest |-> dest.Mappings, mergeErrors |-> r.mergeErrors], FmtMapping)
        o == MergeLoop(sourceTemplate.Outputs, oo, 1,
                       [dest |-> dest.Outputs, mergeErrors |-> m.mergeErrors], FmtOutput)
    IN  [dest   |-> [Resources |-> r.dest, Mappings |-> m.dest, Outputs |-> o.dest],
         logged |-> IF Len(o.mergeErrors) > 0
                    THEN <<[level |-> "error",
                            msg |-> "Failed to update template. The following collisions were found:"]>>
                         \o [i \in 1..Len(o.mergeErrors) |->
                                [level |-> "error", msg |-> o.mergeErrors[i]]]
                    ELSE <<>>,
         err    |-> IF Len(o.mergeErrors) > 0 THEN "Template merge failed" ELSE NIL]

(***************************************************************************)
(* Resource property values                                                *)
(***************************************************************************)

\* Struct types of the gocf package that the code names, and one it does
\* not name (LambdaFunction).
StructTypes ==
    {"IAMRole", "DynamoDBTable", "KinesisStream", "Route53RecordSet",
     "S3Bucket", "SNSTopic", "SQSQueue", "LambdaFunction"}

\* A gocf.ResourceProperties interface value: its dynamic type is a struct
\* type T (pointer = FALSE) or *T (pointer = TRUE). The type switch of
\* resourceOutputs lists the struct types as cases, so the struct types
\* implement the interface with value receivers and the method set of
\* each *T holds the same methods: both T and *T are values of the
\* interface. StreamSpecification tells whether the field of that name of
\* a DynamoDBTable is non-nil.
ResourceProperties ==
    {p \in [type : StructTypes, pointer : BOOLEAN, StreamSpecification : BOOLEAN] :
        p.StreamSpecification => p.type = "DynamoDBTable"}

\* resource.CfnResourceType(): the canonical kind name, the same for T and *T.
CfnResourceType(p) ==
    CASE p.type = "IAMRole"          -> "AWS::IAM::Role"
      [] p.type = "DynamoDBTable"    -> "AWS::DynamoDB::Table"
      [] p.type = "KinesisStream"    -> "AWS::Kinesis::Stream"
      [] p.type = "Route53RecordSet" -> "AWS::Route53::RecordSet"
      [] p.type = "S3Bucket"         -> "AWS::S3::Bucket"
      [] p.type = "SNSTopic"         -> "AWS::SNS::Topic"
      [] p.type = "SQSQueue"         -> "AWS::SQS::Queue"
      [] p.type = "LambdaFunction"   -> "AWS::Lambda::Function"

\* The nil interface value.
NilProperties == [type |-> "nil", pointer |-> FALSE, StreamSpecification |-> FALSE]

\* fmt.Sprintf("%T", typedResource)
GoTypeName(p) == [pointer |-> p.pointer, name |-> p.type]

(***************************************************************************)
(* Output attribute resolver                                               *)
(***************************************************************************)

\* resourceOutputs: the type switch matches the dynamic type exactly, so a
\* case `gocf.T` is taken by a T and never by a *T.
ResourceOutputs(resourceName, res) ==
    LET none == [outputProps |-> <<>>, err |-> NIL, logged |-> <<>>]
    IN  CASE ~res.pointer /\ res.type = "IAMRole" -> none
          [] ~res.pointer /\ res.type = "DynamoDBTable" ->
                IF res.StreamSpecification
                THEN [none EXCEPT !.outputProps = <<"StreamArn">>]
                ELSE none
          [] ~res.pointer /\ res.type = "KinesisStream" ->
                [none EXCEPT !.outputProps = <<"Arn">>]
          [] ~res.pointer /\ res.type = "Route53RecordSet" -> none
          [] ~res.pointer /\ res.type = "S3Bucket" ->
                [none EXCEPT !.outputProps = <<"DomainName", "WebsiteURL">>]
          [] ~res.pointer /\ res.type = "SNSTopic" ->
                [none EXCEPT !.outputProps = <<"TopicName">>]
          [] ~res.pointer /\ res.type = "SQSQueue" ->
                [none EXCEPT !.outputProps = <<"Arn", "QueueName">>]
          [] OTHER ->
                [none EXCEPT !.logged =
                    <<[level |-> "warning",
                       msg |-> "Discovery information for dependency not yet implemented",
                       ResourceType |-> GoTypeName(res)]>>]

(***************************************************************************)
(* Resource factory wrapper                                                *)
(***************************************************************************)

\* Type names the registry knows, and two it does not.
KnownTypeNames == {CfnResourceType(p) : p \in ResourceProperties}
TypeNames == KnownTypeNames \cup {"Custom::Unsupported", ""}

\* gocf.NewResourceByType: a pointer to a zero value of the registered
\* struct type, or nil for a name that is not registered.
NewResourceByType(typeName) ==
    IF typeName \in KnownTypeNames
    THEN CHOOSE p \in ResourceProperties :
            CfnResourceType(p) = typeName /\ p.pointer /\ ~p.StreamSpecification
    ELSE NilProperties

\* newCloudFormationResource. logger.Fatal writes the entry and calls
\* os.Exit(1): the return statement after it is never reached, which the
\* result records as returned = FALSE and exited = TRUE.
NewCloudFormationResource(resourceType) ==
    LET resProps == NewResourceByType(resourceType)
    IN  IF resProps = NilProperties
        THEN [returned |-> FALSE, exited |-> TRUE, resProps |-> NilProperties, err |-> NIL,
              logged |-> <<[level |-> "fatal",
                            msg |-> "Failed to create CloudFormation CustomResource!",
                            Type |-> resourceType]>>]
        ELSE [returned |-> TRUE, exited |-> FALSE, resProps |-> resProps, err |-> NIL,
              logged |-> <<>>]

(***************************************************************************)
(* Discovery document renderer                                             *)
(***************************************************************************)

Text(s)     == [kind |-> "text", s |-> s]
Field(s)    == [kind |-> "action", s |-> s]
Unclosed(s) == [kind |-> "unclosed", s |-> s]

\* The literal pieces of the pattern between its << >> actions.
TextHead  == "\n\t{\n\t\t\"ResourceID\" : \""
TextRef   == "\",\n\t\t\"ResourceRef\" : \"{\"Ref\":\""
TextType  == "\"}\",\n\t\t\"ResourceType\" : \""
TextProps == "\",\n\t\t\"Properties\" : {\n\t\t\t"
TextTail  == "\n\t\t}\n\t}\n"

\* The value the package variable discoveryDataForResourceDependency is
\* initialised with.
ShippedPattern ==
    <<Text(TextHead), Field("ResourceID"), Text(TextRef), Field("ResourceID"),
      Text(TextType), Field("ResourceType"), Text(TextProps),
      Field("ResourceProperties"), Text(TextTail)>>

\* The variable is a mutable package-level var; two corrupted values: one
\* whose last action lacks its closing delimiter, one that names a field
\* discoveryDataTemplate does not have.
UnclosedPattern ==
    [ShippedPattern EXCEPT ![8] = Unclosed("ResourceProperties")]
UnknownFieldPattern ==
    [ShippedPattern EXCEPT ![6] = Field("ResourceKind")]
Patterns == {ShippedPattern, UnclosedPattern, UnknownFieldPattern}

\* template.New(...).Delims("<<", ">>").Parse(text): fails on an action
\* that is not closed; field names are not looked up until execution.
Parse(text) ==
    IF \E i \in DOMAIN text : text[i].kind = "unclosed"
    THEN [tree |-> <<>>, err |-> "template: discoveryResourceData: unclosed action"]
    ELSE [tree |-> text, err |-> NIL]

\* bytes.Buffer.Bytes(): the written bytes, nil for a buffer never written.
BufferBytes(buf) == IF buf = <<>> THEN NilSlice ELSE Slice(buf)

\* Template.Execute into a bytes.Buffer: output is written node by node,
\* and an action naming a missing field stops execution with an error,
\* leaving what was written before it in the buffer.
RECURSIVE Execute(_, _, _, _)
Execute(tree, i, data, buf) ==
    IF i > Len(tree)
    THEN [buf |-> buf, err |-> NIL]
    ELSE IF tree[i].kind = "text"
    THEN Execute(tree, i + 1, data, Append(buf, tree[i].s))
    ELSE IF tree[i].s \in DOMAIN data
    THEN Execute(tree, i + 1, data, buf \o data[tree[i].s])
    ELSE [buf |-> buf, err |-> "template: can't evaluate field"]

\* The format string with the logical name and the attribute exchanged.
QuotedAttrSwapped(eachOutput, logicalResourceName) ==
    <<"\"", logicalResourceName, "\" :\"{ \"Fn::GetAtt\" : [ \"", eachOutput,
      "\", \"", logicalResourceName, "\" ] }\"">>

\* fmt.Sprintf(`"%s" :"{ "Fn::GetAtt" : [ "%s", "%s" ] }"`,
\*             eachOutput, logicalResourceName, eachOutput)
QuotedAttr(eachOutput, logicalResourceName) ==
    <<"\"", eachOutput, "\" :\"{ \"Fn::GetAtt\" : [ \"", logicalResourceName,
      "\", \"", eachOutput, "\" ] }\"">>

\* strings.Join(elems, sep)
RECURSIVE Join(_, _)
Join(elems, sep) ==
    IF Len(elems) = 0 THEN <<>>
    ELSE IF Len(elems) = 1 THEN elems[1]
    ELSE elems[1] \o <<sep>> \o Join(Tail(elems), sep)

\* Lines 87-118: the resolver call, the template data, Sprintf and Join,
\* Parse and Execute, for an item found in template.Resources.
RenderItem(item, logicalResourceName, pattern) ==
    LET outputs     == ResourceOutputs(logicalResourceName, item.Properties)
        quotedAttrs == [i \in 1..Len(outputs.outputProps) |->
                           QuotedAttr(outputs.outputProps[i], logicalResourceName)]
        templateData ==
            [ResourceID         |-> <<logicalResourceName>>,
             ResourceType       |-> <<CfnResourceType(item.Properties)>>,
             ResourceProperties |-> Join(quotedAttrs, ",")]
        parsed      == Parse(pattern)
    IN  IF outputs.err # NIL
        THEN [bytes |-> NilSlice, err |-> outputs.err, resolved |-> TRUE,
              logged |-> outputs.logged]
        ELSE IF parsed.err # NIL
        THEN [bytes |-> NilSlice, err |-> parsed.err, resolved |-> TRUE,
              logged |-> outputs.logged]
        ELSE LET out == Execute(parsed.tree, 1, templateData, <<>>)
             IN  [bytes |-> BufferBytes(out.buf), err |-> out.err, resolved |-> TRUE,
                  logged |-> outputs.logged]

\* The renderer treating an absent name as a failure.
DiscoveryAbsentIsError(template, logicalResourceName, pattern) ==
    IF logicalResourceName \notin DOMAIN template
    THEN [bytes |-> NilSlice, err |-> "resource not found", resolved |-> FALSE,
          logged |-> <<>>]
    ELSE RenderItem(template[logicalResourceName], logicalResourceName, pattern)

\* discoveryResourceInfoForDependency. resolved tells whether the call
\* reached resourceOutputs.
DiscoveryResourceInfoForDependency(template, logicalResourceName, pattern) ==
    IF logicalResourceName \notin DOMAIN template
    THEN [bytes |-> NilSlice, err |-> NIL, resolved |-> FALSE, logged |-> <<>>]
    ELSE RenderItem(template[logicalResourceName], logicalResourceName, pattern)

(***************************************************************************)
(* Mutation helpers                                                        *)
(***************************************************************************)

\* The helper that skips a name the list already holds.
SafeAppendDependencyDedup(res, dependencyName) ==
    LET deps == IF res.DependsOn.nil THEN Slice(<<>>) ELSE res.DependsOn
    IN  IF \E i \in DOMAIN deps.data : deps.data[i] = dependencyName
        THEN [res EXCEPT !.DependsOn = deps]
        ELSE [res EXCEPT !.DependsOn = Slice(Append(deps.data, dependencyName))]

\* safeAppendDependency
SafeAppendDependency(res, dependencyName) ==
    LET deps == IF res.DependsOn.nil THEN Slice(<<>>) ELSE res.DependsOn
    IN  [res EXCEPT !.DependsOn = Slice(Append(deps.data, dependencyName))]

\* safeMetadataInsert
SafeMetadataInsert(res, key, value) ==
    LET meta == IF res.Metadata.nil THEN GoMap(EmptyMap) ELSE res.Metadata
    IN  [res EXCEPT !.Metadata = GoMap(MapAssign(meta.data, key, value))]

(***************************************************************************)
(* Initial states                                                          *)
(***************************************************************************)

EmptyTemplate == [Resources |-> EmptyMap, Mappings |-> EmptyMap, Outputs |-> EmptyMap]

NewResource == [DependsOn |-> NilSlice, Metadata |-> NilMap]

\* Logical names of the templates handed to the renderer.
LogicalNames == {"MyQueue", "MyTable"}

\* Dependency names, metadata keys and metadata values of the helpers.
DependencyNames == {"A", "B"}
MetadataKeys    == {"k1", "k2"}
MetadataValues  == {"v1", "v2"}

NoCall ==
    /\ op = "none"
    /\ ret = <<>>
    /\ logged = <<>>
    /\ exited = FALSE

\* A destination template built before the first merge.
InitMerge ==
    /\ NoCall
    /\ destTemplate \in Templates
    /\ cfTemplate = EmptyMap
    /\ discoveryDataForResourceDependency = ShippedPattern
    /\ resource = NewResource
    /\ resource0 = resource
    /\ added = <<>>

\* A template whose Resources hold any property values under some of the
\* logical names, and a value of the pattern variable.
InitDiscovery ==
    /\ NoCall
    /\ destTemplate = EmptyTemplate
    /\ cfTemplate \in Maps(LogicalNames, [Properties : ResourceProperties])
    /\ discoveryDataForResourceDependency \in Patterns
    /\ resource = NewResource
    /\ resource0 = resource
    /\ added = <<>>

\* A resource as constructed: DependsOn nil, empty or already filled.
InitHelpers ==
    /\ NoCall
    /\ destTemplate = EmptyTemplate
    /\ cfTemplate = EmptyMap
    /\ discoveryDataForResourceDependency = ShippedPattern
    /\ resource \in [DependsOn : {NilSlice, Slice(<<>>), Slice(<<"A">>),
                                   Slice(<<"B", "A">>)},
                     Metadata  : {NilMap, GoMap(EmptyMap)}]
    /\ resource0 = resource
    /\ added = <<>>

Init == InitMerge \/ InitDiscovery \/ InitHelpers

(***************************************************************************)
(* Operations                                                              *)
(***************************************************************************)

\* A call safeMergeTemplates(sourceTemplate, destTemplate, logger).
Merge ==
    /\ ~exited
    /\ \E sourceTemplate \in Templates :
       \E ro \in Orders(DOMAIN sourceTemplate.Resources),
          mo \in Orders(DOMAIN sourceTemplate.Mappings),
          oo \in Orders(DOMAIN sourceTemplate.Outputs) :
          LET r == SafeMergeTemplates(sourceTemplate, destTemplate, ro, mo, oo)
          IN  /\ op' = "safeMergeTemplates"
              /\ ret' = [sourceTemplate |-> sourceTemplate, err |-> r.err]
              /\ logged' = r.logged
              /\ destTemplate' = r.dest
    /\ UNCHANGED <<exited, cfTemplate, discoveryDataForResourceDependency,
                   resource, resource0, added>>

\* A call resourceOutputs(resourceName, resource, logger).
Resolve ==
    /\ ~exited
    /\ \E resourceName \in LogicalNames, res \in ResourceProperties :
          LET r == ResourceOutputs(resourceName, res)
          IN  /\ op' = "resourceOutputs"
              /\ ret' = [resourceName |-> resourceName, resource |-> res,
                         outputProps |-> r.outputProps, err |-> r.err]
              /\ logged' = r.logged
    /\ UNCHANGED <<exited, destTemplate, cfTemplate,
                   discoveryDataForResourceDependency, resource, resource0, added>>

\* A call discoveryResourceInfoForDependency(cfTemplate, name, logger).
Render ==
    /\ ~exited
    /\ \E logicalResourceName \in LogicalNames :
          LET r == DiscoveryResourceInfoForDependency(cfTemplate, logicalResourceName,
                        discoveryDataForResourceDependency)
          IN  /\ op' = "discoveryResourceInfoForDependency"
              /\ ret' = [logicalResourceName |-> logicalResourceName,
                         bytes |-> r.bytes, err |-> r.err, resolved |-> r.resolved]
              /\ logged' = r.logged
    /\ UNCHANGED <<exited, destTemplate, cfTemplate,
                   discoveryDataForResourceDependency, resource, resource0, added>>

\* A call newCloudFormationResource(resourceType, logger).
Create ==
    /\ ~exited
    /\ \E resourceType \in TypeNames :
          LET r == NewCloudFormationResource(resourceType)
          IN  /\ op' = "newCloudFormationResource"
              /\ ret' = [resourceType |-> resourceType, returned |-> r.returned,
                         resProps |-> r.resProps, err |-> r.err]
              /\ logged' = r.logged
              /\ exited' = r.exited
    /\ UNCHANGED <<destTemplate, cfTemplate,
                   discoveryDataForResourceDependency, resource, resource0, added>>

\* A call safeAppendDependency(resource, dependencyName).
AppendDependency ==
    /\ ~exited
    /\ Len(resource.DependsOn.data) < MaxDeps
    /\ \E dependencyName \in DependencyNames :
          /\ op' = "safeAppendDependency"
          /\ ret' = [dependencyName |-> dependencyName]
          /\ resource' = SafeAppendDependency(resource, dependencyName)
          /\ added' = Append(added, dependencyName)
    /\ logged' = <<>>
    /\ UNCHANGED <<exited, destTemplate, cfTemplate,
                   discoveryDataForResourceDependency, resource0>>

\* A call safeMetadataInsert(resource, key, value).
MetadataInsert ==
    /\ ~exited
    /\ \E key \in MetadataKeys, value \in MetadataValues :
          /\ op' = "safeMetadataInsert"
          /\ ret' = [key |-> key, value |-> value]
          /\ resource' = SafeMetadataInsert(resource, key, value)
    /\ logged' = <<>>
    /\ UNCHANGED <<exited, destTemplate, cfTemplate,
                   discoveryDataForResourceDependency, resource0, added>>

NextMerge     == Merge
NextDiscovery == Resolve \/ Render \/ Create
NextHelpers   == AppendDependency \/ MetadataInsert
Next          == Merge \/ Resolve \/ Render \/ Create \/ AppendDependency \/ MetadataInsert

\* Merges into one destination template.
SpecMerge     == InitMerge /\ [][NextMerge]_vars
\* The resolver, the renderer and the factory wrapper over one template.
SpecDiscovery == InitDiscovery /\ [][NextDiscovery]_vars
\* The mutation helpers on one resource.
SpecHelpers   == InitHelpers /\ [][NextHelpers]_vars
\* All operations together.
Spec          == Init /\ [][Next]_vars

(***************************************************************************)
(* Properties                                                              *)
(***************************************************************************)

\* C1: a merge never overwrites. In every call, for each of Resources,
\* Mappings and Outputs, every key the destination held before the call
\* still maps to the same value after it, whatever the call returns; as
\* this holds of every call it holds of every sequence of calls.
C1_MergeNeverOverwrites ==
    [][op' = "safeMergeTemplates" =>
        /\ \A k \in DOMAIN destTemplate.Resources :
              /\ k \in DOMAIN destTemplate'.Resources
              /\ destTemplate'.Resources[k] = destTemplate.Resources[k]
        /\ \A k \in DOMAIN destTemplate.Mappings :
              /\ k \in DOMAIN destTemplate'.Mappings
              /\ destTemplate'.Mappings[k] = destTemplate.Mappings[k]
        /\ \A k \in DOMAIN destTemplate.Outputs :
              /\ k \in DOMAIN destTemplate'.Outputs
              /\ destTemplate'.Outputs[k] = destTemplate.Outputs[k]]_vars

\* A failed merge whose source held a different value under a key of each
\* collection of the destination, all three kept.
C1_Witness ==
    /\ op = "safeMergeTemplates"
    /\ ret.err # NIL
    /\ \E k \in DOMAIN ret.sourceTemplate.Resources \cap DOMAIN destTemplate.Resources :
          ret.sourceTemplate.Resources[k] # destTemplate.Resources[k]
    /\ \E k \in DOMAIN ret.sourceTemplate.Mappings \cap DOMAIN destTemplate.Mappings :
          ret.sourceTemplate.Mappings[k] # destTemplate.Mappings[k]
    /\ \E k \in DOMAIN ret.sourceTemplate.Outputs \cap DOMAIN destTemplate.Outputs :
          ret.sourceTemplate.Outputs[k] # destTemplate.Outputs[k]

\* C2: a merge returns an error exactly when some key of the source is
\* already in the same collection of the destination; failed or not, each
\* destination collection then holds the union of its former keys and the
\* source's keys, every source key that did not collide carrying the
\* source's value.
C2_FailsIffCollisionAndPartiallyApplied ==
    [][op' = "safeMergeTemplates" =>
        LET source == ret'.sourceTemplate
        IN  /\ (ret'.err # NIL) <=>
                  \/ DOMAIN source.Resources \cap DOMAIN destTemplate.Resources # {}
                  \/ DOMAIN source.Mappings \cap DOMAIN destTemplate.Mappings # {}
                  \/ DOMAIN source.Outputs \cap DOMAIN destTemplate.Outputs # {}
            /\ DOMAIN destTemplate'.Resources =
                  DOMAIN destTemplate.Resources \cup DOMAIN source.Resources
            /\ DOMAIN destTemplate'.Mappings =
                  DOMAIN destTemplate.Mappings \cup DOMAIN source.Mappings
            /\ DOMAIN destTemplate'.Outputs =
                  DOMAIN destTemplate.Outputs \cup DOMAIN source.Outputs
            /\ \A k \in DOMAIN source.Resources \ DOMAIN destTemplate.Resources :
                  destTemplate'.Resources[k] = source.Resources[k]
            /\ \A k \in DOMAIN source.Mappings \ DOMAIN destTemplate.Mappings :
                  destTemplate'.Mappings[k] = source.Mappings[k]
            /\ \A k \in DOMAIN source.Outputs \ DOMAIN destTemplate.Outputs :
                  destTemplate'.Outputs[k] = source.Outputs[k]]_vars

\* A failed merge that logged the one collision on resource "A" while the
\* source also held resource "B": "B" did not collide and is in the
\* destination with the source's value.
C2_Witness ==
    /\ op = "safeMergeTemplates"
    /\ ret.err # NIL
    /\ DOMAIN ret.sourceTemplate.Resources = {"A", "B"}
    /\ Len(logged) = 2
    /\ logged[2].msg = ErrorMsg(FmtResource, "A")
    /\ destTemplate.Resources["A"] # ret.sourceTemplate.Resources["A"]
    /\ destTemplate.Resources["B"] = ret.sourceTemplate.Resources["B"]

C4_MergeCommutesWhenDisjoint ==
    [][op' = "safeMergeTemplates" =>
        LET a == ret'.sourceTemplate
            b == destTemplate
            union(x, y) == [k \in DOMAIN x \cup DOMAIN y |->
                               IF k \in DOMAIN x THEN x[k] ELSE y[k]]
        IN  (/\ DOMAIN a.Resources \cap DOMAIN b.Resources = {}
             /\ DOMAIN a.Mappings \cap DOMAIN b.Mappings = {}
             /\ DOMAIN a.Outputs \cap DOMAIN b.Outputs = {})
            => /\ ret'.err = NIL
               /\ destTemplate' = [Resources |-> union(a.Resources, b.Resources),
                                   Mappings  |-> union(a.Mappings, b.Mappings),
                                   Outputs   |-> union(a.Outputs, b.Outputs)]
               /\ \A ro \in Orders(DOMAIN b.Resources),
                     mo \in Orders(DOMAIN b.Mappings),
                     oo \in Orders(DOMAIN b.Outputs) :
                     LET r == SafeMergeTemplates(b, a, ro, mo, oo)
                     IN  r.err = NIL /\ r.dest = destTemplate']_vars

\* A successful merge of a source holding resource "A" and a mapping into
\* a destination that held resource "B" and an output.
C4_Witness ==
    /\ op = "safeMergeTemplates"
    /\ ret.err = NIL
    /\ DOMAIN ret.sourceTemplate.Resources = {"A"}
    /\ DOMAIN ret.sourceTemplate.Mappings = {"A"}
    /\ DOMAIN ret.sourceTemplate.Outputs = {}
    /\ DOMAIN destTemplate.Resources = {"A", "B"}
    /\ DOMAIN destTemplate.Outputs = {"A"}

\* C5: resourceOutputs returns, with a nil error, the attribute list the
\* policy table fixes for the kind of the property value it is given:
\* role and record set none, table StreamArn when it has a stream
\* specification and none otherwise, stream Arn, bucket DomainName and
\* WebsiteURL, topic TopicName, queue Arn and QueueName, any other kind
\* none.
C5_ResolverFollowsPolicyTable ==
    op = "resourceOutputs" =>
        LET kind == CfnResourceType(ret.resource)
        IN  /\ ret.err = NIL
            /\ ret.outputProps =
                  CASE kind = "AWS::DynamoDB::Table" ->
                          IF ret.resource.StreamSpecification
                          THEN <<"StreamArn">> ELSE <<>>
                    [] kind = "AWS::Kinesis::Stream" -> <<"Arn">>
                    [] kind = "AWS::S3::Bucket" -> <<"DomainName", "WebsiteURL">>
                    [] kind = "AWS::SNS::Topic" -> <<"TopicName">>
                    [] kind = "AWS::SQS::Queue" -> <<"Arn", "QueueName">>
                    [] OTHER -> <<>>

C7_FactoryFailureIsReturned ==
    (op = "newCloudFormationResource"
        /\ NewResourceByType(ret.resourceType) = NilProperties)
    => /\ ret.returned
       /\ ret.resProps = NilProperties
       /\ ret.err # NIL
       /\ ~exited

\* C8: whenever the renderer returns a non-nil error, the bytes it returns
\* are nil or empty.
C8_NoBytesWithError ==
    (op = "discoveryResourceInfoForDependency" /\ ret.err # NIL)
    => (ret.bytes.nil \/ ret.bytes.data = <<>>)

\* C9: for a logical name that is not in the template's Resources, the
\* renderer returns nil bytes and a nil error, does not reach the
\* resolver, logs nothing and leaves the template as it was.
C9_AbsentNameIsEmptyResult ==
    [][(op' = "discoveryResourceInfoForDependency"
            /\ ret'.logicalResourceName \notin DOMAIN cfTemplate)
       => /\ ret'.bytes = NilSlice
          /\ ret'.err = NIL
          /\ ~ret'.resolved
          /\ logged' = <<>>
          /\ cfTemplate' = cfTemplate]_vars

\* A render of a name the template lacks while it holds another resource.
C9_Witness ==
    /\ op = "discoveryResourceInfoForDependency"
    /\ ret.logicalResourceName \notin DOMAIN cfTemplate
    /\ cfTemplate # EmptyMap
    /\ ret.bytes.nil

\* C10: safeAppendDependency only appends. After any sequence of calls,
\* DependsOn is the list the resource was constructed with (empty when it
\* was nil) followed by the names passed, in call order and with
\* repetitions; it is non-nil once a call was made.
C10_DependsOnIsAppendOnly ==
    /\ resource.DependsOn.data = resource0.DependsOn.data \o added
    /\ Len(resource.DependsOn.data) = Len(resource0.DependsOn.data) + Len(added)
    /\ added # <<>> => ~resource.DependsOn.nil
    /\ added = <<>> => resource.DependsOn = resource0.DependsOn

\* Two calls with the same name on a resource constructed without
\* dependencies.
C10_Witness ==
    /\ resource0.DependsOn.nil
    /\ added = <<"A", "A">>
    /\ resource.DependsOn = Slice(<<"A", "A">>)

====
